---- MODULE Spec2Model ----
(***************************************************************************)
(* A model of cubemap_converter's Python scripts: the pixel grid           *)
(* (scripts/utils.py), the Kannala-Brandt fisheye curve and its Newton     *)
(* inversion (scripts/fisheye_model.py), and the remap-table builders and  *)
(* the driver main (scripts/convert_data.py).                              *)
(*                                                                         *)
(* Numbers.  The code computes in IEEE doubles.  Here a real v is the      *)
(* integer v*Scale (fixed point), of magnitude at most Limit; whatever     *)
(* falls outside that range, and every division by zero, is the single     *)
(* value NonFinite, which stands for numpy's inf and nan and is absorbing, *)
(* as nan is.  Products and quotients round toward zero.  Integer-valued   *)
(* reals (n*Scale) are computed with exactly, as doubles compute with      *)
(* small integers.                                                         *)
(***************************************************************************)
EXTENDS Integers, Sequences, FiniteSets, TLC

\* ------------------------------------------------------------- bounds

\* Fixed-point resolution: the real 1.0 is the integer Scale.
Scale == 16
\* Largest representable magnitude (the analogue of the largest double).
Limit == 2^24
\* The non-finite value (inf or nan).
NonFinite == Limit + 1

\* -------------------------------------------------------------- state

\* create_grid: its arguments, the line it is at, and its locals x, y, p and
\* the array it returns.
VARIABLES g_width, g_height, g_pc, g_x, g_y, g_p, g_ret
\* fisheye_distortion: its arguments and the pair it returns.
VARIABLES c_theta, c_coeffs, c_pc, c_ret
\* The two Newton loops on one column r: fisheye_invert_distortion's
\* (theta, error, passes done) and the one inside unproject_fisheye.
VARIABLES n_r, n_coeffs, inv_pc, inv_theta, inv_error, inv_iter, un_pc, un_theta, un_iter
\* create_remap_table: the camera description and what the call did.
VARIABLES t_camera, t_pc, t_ret
\* main: the config's cameras, the line main is at, the loop index, the table
\* in hand, the files in the temporary directory, the converter commands run,
\* the files copied to the output directory, the exception that ended main,
\* and the order in which all of it happened.
VARIABLES cameras, pc, index, remap_table, temp_files, commands, csv_left, copied,
          raised, events

grid_vars == <<g_width, g_height, g_pc, g_x, g_y, g_p, g_ret>>
curve_vars == <<c_theta, c_coeffs, c_pc, c_ret>>
newton_vars ==
  <<n_r, n_coeffs, inv_pc, inv_theta, inv_error, inv_iter, un_pc, un_theta, un_iter>>
table_vars == <<t_camera, t_pc, t_ret>>
main_vars ==
  <<cameras, pc, index, remap_table, temp_files, commands, csv_left, copied, raised, events>>
vars == <<grid_vars, curve_vars, newton_vars, table_vars, main_vars>>

\* ------------------------------------------------------------ numbers

Abs(a) == IF a < 0 THEN -a ELSE a
Sgn(a) == IF a < 0 THEN -1 ELSE 1
IsFinite(a) == a # NonFinite
\* Overflow gives a non-finite value.
Sat(v) == IF v > Limit \/ v < -Limit THEN NonFinite ELSE v
FromInt(n) == Sat(n * Scale)
One == FromInt(1)

Add(a, b) == IF IsFinite(a) /\ IsFinite(b) THEN Sat(a + b) ELSE NonFinite
Neg(a) == IF IsFinite(a) THEN -a ELSE NonFinite
Sub(a, b) == Add(a, Neg(b))
\* a*b/Scale, rounded toward zero, computed without leaving 32 bits.
Mul(a, b) ==
  IF ~(IsFinite(a) /\ IsFinite(b)) THEN NonFinite
  ELSE LET x == Abs(a)
           y == Abs(b)
           xh == x \div Scale
           xl == x % Scale
       IN IF y > 0 /\ xh > Limit \div y THEN NonFinite
          ELSE Sat(Sgn(a) * Sgn(b) * (xh * y + (xl * y) \div Scale))
\* a/b, rounded toward zero; x/0 is inf or nan.
Div(a, b) ==
  IF ~(IsFinite(a) /\ IsFinite(b)) \/ b = 0 THEN NonFinite
  ELSE Sat(Sgn(a) * Sgn(b) * ((Abs(a) * Scale) \div Abs(b)))

\* np.power(x, n) for a non-negative integer n.
RECURSIVE Pow(_, _)
Pow(x, n) == IF n = 0 THEN One ELSE Mul(Pow(x, n - 1), x)

\* The inner product of two rows of equal length, summed left to right.
RECURSIVE DotFrom(_, _, _)
DotFrom(u, v, j) ==
  IF j = 0 THEN 0 ELSE Add(DotFrom(u, v, j - 1), Mul(u[j], v[j]))
Dot(u, v) == DotFrom(u, v, Len(u))

\* ------------------------------------- fisheye_model.fisheye_distortion

\* np.concatenate([ones_like(theta), theta^2, theta^4, theta^6, theta^8], -1):
\* one row of five even powers per row of theta.
poly_terms_even(theta) ==
  [i \in 1..Len(theta) |->
     <<One, Pow(theta[i], 2), Pow(theta[i], 4), Pow(theta[i], 6), Pow(theta[i], 8)>>]

\* poly_terms_even * theta: each row multiplied by that row's theta.
poly_terms_odd(theta) ==
  [i \in 1..Len(theta) |->
     [j \in 1..5 |-> Mul(poly_terms_even(theta)[i][j], theta[i])]]

\* The implicit 1.0 put after the coefficients instead of before them.
coeffs_extended_at_end(coeffs) == coeffs \o <<One>>

\* np.concatenate([[1.0], coeffs])
coeffs_extended(coeffs) == <<One>> \o coeffs

\* np.array([1.0, 3.0, 5.0, 7.0, 9.0])
DerivativeFactors == <<FromInt(1), FromInt(3), FromInt(5), FromInt(7), FromInt(9)>>

\* coeffs_extended * [1,3,5,7,9], elementwise.
derivative_coeffs(coeffs) ==
  [j \in 1..5 |-> Mul(coeffs_extended(coeffs)[j], DerivativeFactors[j])]

\* The pair (r, r_D_theta), each a column with one row per row of theta.
fisheye_distortion(theta, coeffs) ==
  [r |-> [i \in 1..Len(theta) |-> Dot(poly_terms_odd(theta)[i], coeffs_extended(coeffs))],
   r_D_theta |->
      [i \in 1..Len(theta) |-> Dot(poly_terms_even(theta)[i], derivative_coeffs(coeffs))]]

\* ------------------------------ fisheye_model.fisheye_invert_distortion

\* The iteration count fisheye_invert_distortion defaults to.
DefaultMaxIters == 10

\* One pass of the loop body: error = r_predicted - r; theta -= error / r_D_theta.
InvertUpdate(theta, r, coeffs) ==
  LET d == fisheye_distortion(theta, coeffs)
      error == [i \in 1..Len(theta) |-> Sub(d.r[i], r[i])]
  IN [theta |-> [i \in 1..Len(theta) |-> Sub(theta[i], Div(error[i], d.r_D_theta[i]))],
      error |-> error]

\* The loop's variables after n passes; theta starts as a copy of r, and error
\* is unbound until the first pass.
RECURSIVE InvertLoop(_, _, _)
InvertLoop(r, coeffs, n) ==
  IF n = 0 THEN [theta |-> r, error |-> <<>>]
  ELSE InvertUpdate(InvertLoop(r, coeffs, n - 1).theta, r, coeffs)

\* The pair (theta, error) returned after max_iters passes.
fisheye_invert_distortion(r, coeffs, max_iters) == InvertLoop(r, coeffs, max_iters)

\* ------------------------------------------------- utils.create_grid

Max(a, b) == IF a > b THEN a ELSE b

\* np.arange(0, n): 0, 1, .., n-1, empty when n <= 0.
arange(n) == [k \in 1..Max(n, 0) |-> k - 1]

\* np.meshgrid(xs, ys): two Len(ys) x Len(xs) matrices, x[i][j] = xs[j] and
\* y[i][j] = ys[i].
meshgrid(xs, ys) ==
  [x |-> [i \in 1..Len(ys) |-> [j \in 1..Len(xs) |-> xs[j]]],
   y |-> [i \in 1..Len(ys) |-> [j \in 1..Len(xs) |-> ys[i]]]]

\* np.stack([x, y], axis=-1): p[i][j] = (x[i][j], y[i][j]).
stack(x, y) == [i \in 1..Len(x) |-> [j \in 1..Len(x[i]) |-> <<x[i][j], y[i][j]>>]]

\* A flattening in Fortran (column-major) order, as order='F' would give.
reshape_pairs_column_major(p, rows, cols) ==
  [k \in 1..(rows * cols) |-> p[((k - 1) % rows) + 1][((k - 1) \div rows) + 1]]

\* p.reshape([-1, 2]) of a rows x cols x 2 array: its pairs in C order.
reshape_pairs(p, rows, cols) ==
  [k \in 1..(rows * cols) |-> p[((k - 1) \div cols) + 1][((k - 1) % cols) + 1]]

create_grid(width, height) ==
  LET m == meshgrid(arange(width), arange(height))
  IN reshape_pairs(stack(m.x, m.y), Max(height, 0), Max(width, 0))

\* ---------------------------------------- fisheye_model.unproject_fisheye

\* floor(sqrt(n)) for n >= 0.
RECURSIVE ISqrt(_)
ISqrt(n) ==
  IF n < 2 THEN n
  ELSE LET s == 2 * ISqrt(n \div 4)
       IN IF (s + 1) * (s + 1) <= n THEN s + 1 ELSE s

\* The square root of a number.
Sqrt(a) == IF ~IsFinite(a) \/ a < 0 THEN NonFinite ELSE ISqrt(a * Scale)

\* np.linalg.inv(K) has no value for a singular K (LinAlgError).
Singular(K) == K[1][1] = 0 \/ K[2][2] = 0

\* np.linalg.inv(K) for a camera matrix [[fx,0,cx],[0,fy,cy],[0,0,1]].
inv(K) ==
  <<<<Div(One, K[1][1]), 0, Neg(Div(K[1][3], K[1][1]))>>,
    <<0, Div(One, K[2][2]), Neg(Div(K[2][3], K[2][2]))>>,
    <<0, 0, One>>>>

\* np.concatenate([p_native, ones], axis=-1), the integer pixels made floats.
homogenous(p_native) ==
  [i \in 1..Len(p_native) |-> <<FromInt(p_native[i][1]), FromInt(p_native[i][2]), One>>]

\* (inv(K) @ p_native_homogenous.T).T: row i is inv(K) applied to row i.
p_img_homogenous(p_native, K) ==
  [i \in 1..Len(p_native) |->
     [c \in 1..3 |-> Dot(inv(K)[c], homogenous(p_native)[i])]]

\* np.linalg.norm(p_img_homogenous[:, 0:2], axis=1, keepdims=True)
radius(p_img) ==
  [i \in 1..Len(p_img) |-> Sqrt(Add(Mul(p_img[i][1], p_img[i][1]), Mul(p_img[i][2], p_img[i][2])))]

\* The iteration count written in unproject_fisheye's loop.
UnprojectIters == 10

\* One pass of unproject_fisheye's own loop body.
UnprojectUpdate(theta, r, coeffs) ==
  LET d == fisheye_distortion(theta, coeffs)
      error == [i \in 1..Len(theta) |-> Sub(d.r[i], r[i])]
  IN [i \in 1..Len(theta) |-> Sub(theta[i], Div(error[i], d.r_D_theta[i]))]

\* theta after n passes of that loop, from theta = np.copy(r).
RECURSIVE UnprojectLoop(_, _, _)
UnprojectLoop(r, coeffs, n) ==
  IF n = 0 THEN r ELSE UnprojectUpdate(UnprojectLoop(r, coeffs, n - 1), r, coeffs)

\* One returned row: (cos(phi)sin(theta), sin(phi)sin(theta), cos(theta)) with
\* phi = arctan2(y, x).  The trigonometric functions are not evaluated: each
\* component is the term naming the function and its arguments.
unit_vector(y, x, theta) ==
  <<[fn |-> "cos(phi)*sin(theta)", y |-> y, x |-> x, theta |-> theta],
    [fn |-> "sin(phi)*sin(theta)", y |-> y, x |-> x, theta |-> theta],
    [fn |-> "cos(theta)", y |-> 0, x |-> 0, theta |-> theta]>>

\* The N x 3 array of unit vectors, one row per row of p_native.
unproject_fisheye(p_native, K, coeffs) ==
  LET p_img == p_img_homogenous(p_native, K)
      theta == UnprojectLoop(radius(p_img), coeffs, UnprojectIters)
  IN [i \in 1..Len(theta) |-> unit_vector(p_img[i][2], p_img[i][1], theta[i])]

\* ------------------------------------------------ numpy's reshape

\* What a call that returned nothing leaves in the place of its value.
None == [shape |-> <<>>, rows |-> <<>>]
\* No exception.
NoExc == [type |-> "", msg |-> <<>>]
\* A Python exception: its class and the parts of its message.
Exception(type, msg) == [type |-> type, msg |-> msg]

\* How many of the two requested dimensions are the placeholder -1.
Unknowns(height, width) ==
  (IF height = -1 THEN 1 ELSE 0) + (IF width = -1 THEN 1 ELSE 0)

\* The product of the requested dimensions that are not -1 (the last is 3).
KnownProduct(height, width) ==
  (IF height = -1 THEN 1 ELSE height) * (IF width = -1 THEN 1 ELSE width) * 3

\* The exception ndarray.reshape([height, width, 3]) raises on an N x 3 array
\* of n3 rows, or NoExc.
reshape_error(n3, height, width) ==
  IF height < -1 \/ width < -1
    THEN Exception("ValueError", <<"negative dimensions not allowed">>)
  ELSE IF Unknowns(height, width) > 1
    THEN Exception("ValueError", <<"can only specify one unknown dimension">>)
  ELSE IF Unknowns(height, width) = 1
    THEN IF KnownProduct(height, width) = 0
            \/ (n3 * 3) % KnownProduct(height, width) # 0
           THEN Exception("ValueError", <<"cannot reshape array", n3 * 3, <<height, width, 3>>>>)
           ELSE NoExc
  ELSE IF KnownProduct(height, width) # n3 * 3
    THEN Exception("ValueError", <<"cannot reshape array", n3 * 3, <<height, width, 3>>>>)
  ELSE NoExc

\* The shape reshape gives when it raises nothing: a -1 is inferred.
reshape_shape(n3, height, width) ==
  LET inferred == (n3 * 3) \div KnownProduct(height, width)
  IN <<IF height = -1 THEN inferred ELSE height,
       IF width = -1 THEN inferred ELSE width,
       3>>

\* A reshape that fills the table column by column (Fortran order).
reshape_fortran(flat, height, width) ==
  LET shape == reshape_shape(Len(flat), height, width)
  IN [shape |-> shape,
      rows |-> [y \in 1..shape[1] |-> [x \in 1..shape[2] |-> flat[(x - 1) * shape[1] + y]]]]

\* flat.reshape([height, width, 3]) where it raises nothing: the rows of flat
\* taken in order, shape[2] of them to each row of the table.
reshape(flat, height, width) ==
  LET shape == reshape_shape(Len(flat), height, width)
  IN [shape |-> shape,
      rows |-> [y \in 1..shape[1] |-> [x \in 1..shape[2] |-> flat[(y - 1) * shape[2] + x]]]]

\* ---------------------------------------------- convert_data accessors

\* dict.get(key, default)
Get(d, key, default) == IF key \in DOMAIN d THEN d[key] ELSE default
\* dict()
EmptyDict == <<>>
\* pprint.pformat(camera): the text shows the whole record.
pformat(camera) == [pformat |-> camera]
\* The text an f-string puts for {model}: the value alone.
str(value) == [str |-> value]

\* A get_image_dimensions whose message shows the dimensions record only.
get_image_dimensions_echo_dimensions(camera) ==
  LET d == Get(camera, "dimensions", EmptyDict)
  IN IF {"width", "height"} \subseteq DOMAIN d
       THEN [ok |-> TRUE, width |-> d["width"], height |-> d["height"], exc |-> NoExc]
       ELSE [ok |-> FALSE, width |-> 0, height |-> 0,
             exc |-> Exception("ValueError",
                       <<"Incorrect specification of dimensions: ", pformat(d)>>)]

\* The value returned, or the exception raised, by get_image_dimensions.
get_image_dimensions(camera) ==
  LET d == Get(camera, "dimensions", EmptyDict)
  IN IF {"width", "height"} \subseteq DOMAIN d
       THEN [ok |-> TRUE, width |-> d["width"], height |-> d["height"], exc |-> NoExc]
       ELSE [ok |-> FALSE, width |-> 0, height |-> 0,
             exc |-> Exception("ValueError",
                       <<"Incorrect specification of dimensions: ", pformat(camera)>>)]

\* The value returned, or the exception raised, by get_camera_matrix.
get_camera_matrix(camera) ==
  LET m == Get(camera, "camera_matrix", EmptyDict)
  IN IF {"fx", "fy", "cx", "cy"} \subseteq DOMAIN m
       THEN [ok |-> TRUE,
             K |-> <<<<m["fx"], 0, m["cx"]>>, <<0, m["fy"], m["cy"]>>, <<0, 0, One>>>>,
             exc |-> NoExc]
       ELSE [ok |-> FALSE, K |-> <<>>,
             exc |-> Exception("ValueError",
                       <<"Incorrect specification of camera matrix: ", pformat(camera)>>)]

\* What one call of a table builder did: whether it returned, the table or the
\* exception, and the calls it made, in order, with the arguments the grid
\* generator and the undistortion primitive were given.
Outcome(table, exc, calls, grid_args, undistort_args) ==
  [ok |-> exc = NoExc, table |-> table, exc |-> exc, calls |-> calls,
   grid_args |-> grid_args, undistort_args |-> undistort_args]

\* ---------------------------- convert_data.create_fisheye_remap_table

\* coeffs = np.array([k1, k2, k3, k4])
fisheye_coeffs(dc) == <<dc["k1"], dc["k2"], dc["k3"], dc["k4"]>>

create_fisheye_remap_table(camera) ==
  LET dims == get_image_dimensions(camera)
      cm == get_camera_matrix(camera)
      dc == Get(camera, "distortion_coefficients", EmptyDict)
      coeffs == fisheye_coeffs(dc)
      p_native == create_grid(dims.width, dims.height)
      v_cam == unproject_fisheye(p_native, cm.K, coeffs)
      called == <<"create_fisheye_remap_table", "get_image_dimensions">>
  IN IF ~dims.ok THEN Outcome(None, dims.exc, called, <<>>, <<>>)
     ELSE IF ~cm.ok
       THEN Outcome(None, cm.exc, called \o <<"get_camera_matrix">>, <<>>, <<>>)
     ELSE IF ~({"k1", "k2", "k3", "k4"} \subseteq DOMAIN dc)
       THEN Outcome(None,
              Exception("ValueError",
                <<"Incorrect specification of distortion parameters: ", pformat(camera)>>),
              called \o <<"get_camera_matrix">>, <<>>, <<>>)
     ELSE IF Singular(cm.K)
       THEN Outcome(None, Exception("LinAlgError", <<"Singular matrix">>),
              called \o <<"get_camera_matrix", "create_grid", "unproject_fisheye">>,
              <<<<dims.width, dims.height>>>>, <<>>)
     ELSE IF reshape_error(Len(v_cam), dims.height, dims.width) # NoExc
       THEN Outcome(None, reshape_error(Len(v_cam), dims.height, dims.width),
              called \o <<"get_camera_matrix", "create_grid", "unproject_fisheye", "reshape">>,
              <<<<dims.width, dims.height>>>>, <<>>)
     ELSE Outcome(reshape(v_cam, dims.height, dims.width), NoExc,
              called \o <<"get_camera_matrix", "create_grid", "unproject_fisheye", "reshape">>,
              <<<<dims.width, dims.height>>>>, <<>>)

\* ---------------------- convert_data.create_brown_conrady_remap_table

\* cv2.undistortPoints(points, K, coeffs), the external undistortion primitive:
\* one normalized point per pixel, not evaluated (the term names the call).
\* Given no points it is taken to return none.
undistortPoints(points, K, coeffs) ==
  [i \in 1..Len(points) |->
     [fn |-> "undistortPoints", point |-> points[i], K |-> K, coeffs |-> coeffs]]

\* p_undistorted_unit_depth / norm(...): row i is the point at unit depth,
\* normalized to unit length; a term, as the point is.
normalized_unit_depth(p_undistorted) ==
  [i \in 1..Len(p_undistorted) |->
     <<[fn |-> "x/norm", of |-> p_undistorted[i]],
       [fn |-> "y/norm", of |-> p_undistorted[i]],
       [fn |-> "1/norm", of |-> p_undistorted[i]]>>]

\* p_native.astype(np.float64): each integer coordinate made a float.
astype_float64(points) ==
  [i \in 1..Len(points) |-> <<FromInt(points[i][1]), FromInt(points[i][2])>>]

\* The five coefficients in the order of their keys.
brown_conrady_coeffs_key_order(dc) == <<dc["k1"], dc["k2"], dc["k3"], dc["p1"], dc["p2"]>>

\* coeffs = np.array([k1, k2, p1, p2, k3], dtype=np.float64)
brown_conrady_coeffs(dc) == <<dc["k1"], dc["k2"], dc["p1"], dc["p2"], dc["k3"]>>

create_brown_conrady_remap_table(camera) ==
  LET dims == get_image_dimensions(camera)
      cm == get_camera_matrix(camera)
      dc == Get(camera, "distortion_coefficients", EmptyDict)
      coeffs == brown_conrady_coeffs(dc)
      p_native == create_grid(dims.width, dims.height)
      p_undistorted == undistortPoints(astype_float64(p_native), cm.K, coeffs)
      v_cam == normalized_unit_depth(p_undistorted)
      called == <<"create_brown_conrady_remap_table", "get_image_dimensions">>
      primitive_args ==
        <<[points |-> astype_float64(p_native), K |-> cm.K, coeffs |-> coeffs]>>
  IN IF ~dims.ok THEN Outcome(None, dims.exc, called, <<>>, <<>>)
     ELSE IF ~cm.ok
       THEN Outcome(None, cm.exc, called \o <<"get_camera_matrix">>, <<>>, <<>>)
     ELSE IF ~({"k1", "k2", "k3", "p1", "p2"} \subseteq DOMAIN dc)
       THEN Outcome(None,
              Exception("ValueError",
                <<"Incorrect specification of distortion parameters: ", pformat(camera)>>),
              called \o <<"get_camera_matrix">>, <<>>, <<>>)
     ELSE IF reshape_error(Len(v_cam), dims.height, dims.width) # NoExc
       THEN Outcome(None, reshape_error(Len(v_cam), dims.height, dims.width),
              called \o <<"get_camera_matrix", "create_grid", "undistortPoints", "reshape">>,
              <<<<dims.width, dims.height>>>>, primitive_args)
     ELSE Outcome(reshape(v_cam, dims.height, dims.width), NoExc,
              called \o <<"get_camera_matrix", "create_grid", "undistortPoints", "reshape">>,
              <<<<dims.width, dims.height>>>>, primitive_args)

\* -------------------------------------- convert_data.create_remap_table

\* A dispatch that takes every model but brown-conrady for a fisheye.
create_remap_table_fisheye_by_default(camera) ==
  IF "model" \notin DOMAIN camera
    THEN Outcome(None,
           Exception("KeyError", <<"Camera lacks a model specifier: ", pformat(camera)>>),
           <<>>, <<>>, <<>>)
  ELSE IF camera["model"] = "brown-conrady" THEN create_brown_conrady_remap_table(camera)
  ELSE create_fisheye_remap_table(camera)

create_remap_table(camera) ==
  IF "model" \notin DOMAIN camera
    THEN Outcome(None,
           Exception("KeyError", <<"Camera lacks a model specifier: ", pformat(camera)>>),
           <<>>, <<>>, <<>>)
  ELSE IF camera["model"] = "fisheye" THEN create_fisheye_remap_table(camera)
  ELSE IF camera["model"] = "brown-conrady" THEN create_brown_conrady_remap_table(camera)
  ELSE Outcome(None,
         Exception("KeyError", <<"Invalid camera model: ", str(camera["model"])>>),
         <<>>, <<>>, <<>>)

\* =================================================== the state machines

\* The variables of a function that is not being run.
GridOff ==
  /\ g_width = 0 /\ g_height = 0 /\ g_pc = "off"
  /\ g_x = <<>> /\ g_y = <<>> /\ g_p = <<>> /\ g_ret = <<>>
CurveOff == c_theta = <<>> /\ c_coeffs = <<>> /\ c_pc = "off" /\ c_ret = <<>>
NewtonOff ==
  /\ n_r = <<>> /\ n_coeffs = <<>>
  /\ inv_pc = "off" /\ inv_theta = <<>> /\ inv_error = <<>> /\ inv_iter = 0
  /\ un_pc = "off" /\ un_theta = <<>> /\ un_iter = 0
TableOff == t_camera = <<>> /\ t_pc = "off" /\ t_ret = <<>>
MainOff ==
  /\ cameras = <<>> /\ pc = "off" /\ index = 0 /\ remap_table = None
  /\ temp_files = <<>> /\ commands = <<>> /\ csv_left = {} /\ copied = {}
  /\ raised = NoExc /\ events = <<>>

\* ------------------------------------------------ create_grid, by line

\* The largest width and height of a generated grid.
MaxGrid == 4
\* The arguments tried: every size up to MaxGrid, and zero and -1.
GridSizes == -1..MaxGrid

GridInit ==
  /\ g_width \in GridSizes /\ g_height \in GridSizes /\ g_pc = "line 6"
  /\ g_x = <<>> /\ g_y = <<>> /\ g_p = <<>> /\ g_ret = <<>>

\* x, y = np.meshgrid(np.arange(0, width), np.arange(0, height))
GridMeshgrid ==
  /\ g_pc = "line 6"
  /\ g_x' = meshgrid(arange(g_width), arange(g_height)).x
  /\ g_y' = meshgrid(arange(g_width), arange(g_height)).y
  /\ g_pc' = "line 7"
  /\ UNCHANGED <<g_width, g_height, g_p, g_ret>>
  /\ UNCHANGED <<curve_vars, newton_vars, table_vars, main_vars>>

\* p = np.stack([x, y], axis=-1)
GridStack ==
  /\ g_pc = "line 7"
  /\ g_p' = stack(g_x, g_y)
  /\ g_pc' = "line 8"
  /\ UNCHANGED <<g_width, g_height, g_x, g_y, g_ret>>
  /\ UNCHANGED <<curve_vars, newton_vars, table_vars, main_vars>>

\* return p.reshape([-1, 2])
GridReturn ==
  /\ g_pc = "line 8"
  /\ g_ret' = reshape_pairs(g_p, Max(g_height, 0), Max(g_width, 0))
  /\ g_pc' = "returned"
  /\ UNCHANGED <<g_width, g_height, g_x, g_y, g_p>>
  /\ UNCHANGED <<curve_vars, newton_vars, table_vars, main_vars>>

GridNext == GridMeshgrid \/ GridStack \/ GridReturn

InitGrid == GridInit /\ CurveOff /\ NewtonOff /\ TableOff /\ MainOff
SpecGrid == InitGrid /\ [][GridNext]_vars

\* ------------------------------------------- fisheye_distortion, called

\* The longest column of angles tried.
MaxRows == 2
\* The largest angle tried, in radians.
MaxTheta == 2
\* Whole-number angles and coefficients: computed with exactly.
Angles == {FromInt(n) : n \in -MaxTheta..MaxTheta}
Columns(values) == UNION {[1..n -> values] : n \in 1..MaxRows}
CurveCoeffs == [1..4 -> {FromInt(-1), 0, FromInt(1)}]

CurveInit ==
  /\ c_theta \in Columns(Angles) /\ c_coeffs \in CurveCoeffs
  /\ c_pc = "call" /\ c_ret = <<>>

\* r, r_D_theta = fisheye_distortion(theta, coeffs)
CurveEvaluate ==
  /\ c_pc = "call"
  /\ c_ret' = fisheye_distortion(c_theta, c_coeffs)
  /\ c_pc' = "returned"
  /\ UNCHANGED <<c_theta, c_coeffs>>
  /\ UNCHANGED <<grid_vars, newton_vars, table_vars, main_vars>>

CurveNext == CurveEvaluate

InitCurve == GridOff /\ CurveInit /\ NewtonOff /\ TableOff /\ MainOff
SpecCurve == InitCurve /\ [][CurveNext]_vars

\* --------------------------------------------- the two Newton loops

\* Radii tried: 0, 0.5, 1 and 2.
Radii == {0, Scale \div 2, FromInt(1), FromInt(2)}
\* Coefficients tried: equidistant; a mild positive and a mild negative k1; and
\* (-2, 1, 0, 0), whose derivative 1 - 6 theta^2 + 5 theta^4 is zero at theta = 1.
NewtonCoeffs ==
  {<<0, 0, 0, 0>>, <<Scale \div 8, 0, 0, 0>>, <<-(Scale \div 4), 0, 0, 0>>,
   <<FromInt(-2), FromInt(1), 0, 0>>}

NewtonInit ==
  /\ n_r \in Columns(Radii) /\ n_coeffs \in NewtonCoeffs
  /\ inv_pc = "call" /\ inv_theta = <<>> /\ inv_error = <<>> /\ inv_iter = 0
  /\ un_pc = "call" /\ un_theta = <<>> /\ un_iter = 0

\* fisheye_invert_distortion(r, coeffs): theta = np.copy(r)
InvertStart ==
  /\ inv_pc = "call"
  /\ inv_theta' = n_r
  /\ inv_pc' = "loop"
  /\ UNCHANGED <<n_r, n_coeffs, inv_error, inv_iter, un_pc, un_theta, un_iter>>
  /\ UNCHANGED <<grid_vars, curve_vars, table_vars, main_vars>>

\* One pass of for _ in range(0, max_iters), max_iters left at its default.
InvertPass ==
  /\ inv_pc = "loop" /\ inv_iter < DefaultMaxIters
  /\ LET passed == InvertUpdate(inv_theta, n_r, n_coeffs)
     IN inv_theta' = passed.theta /\ inv_error' = passed.error
  /\ inv_iter' = inv_iter + 1
  /\ UNCHANGED <<n_r, n_coeffs, inv_pc, un_pc, un_theta, un_iter>>
  /\ UNCHANGED <<grid_vars, curve_vars, table_vars, main_vars>>

\* The range is exhausted: return theta, error
InvertReturn ==
  /\ inv_pc = "loop" /\ inv_iter >= DefaultMaxIters
  /\ inv_pc' = "returned"
  /\ UNCHANGED <<n_r, n_coeffs, inv_theta, inv_error, inv_iter, un_pc, un_theta, un_iter>>
  /\ UNCHANGED <<grid_vars, curve_vars, table_vars, main_vars>>

\* unproject_fisheye, line 155: theta = np.copy(r).  The caller modelled runs
\* it on the radii it has just inverted.
UnprojectStart ==
  /\ un_pc = "call" /\ inv_pc = "returned"
  /\ un_theta' = n_r
  /\ un_pc' = "loop"
  /\ UNCHANGED <<n_r, n_coeffs, inv_pc, inv_theta, inv_error, inv_iter, un_iter>>
  /\ UNCHANGED <<grid_vars, curve_vars, table_vars, main_vars>>

\* One pass of for _ in range(0, 10)
UnprojectPass ==
  /\ un_pc = "loop" /\ un_iter < UnprojectIters
  /\ un_theta' = UnprojectUpdate(un_theta, n_r, n_coeffs)
  /\ un_iter' = un_iter + 1
  /\ UNCHANGED <<n_r, n_coeffs, inv_pc, inv_theta, inv_error, inv_iter, un_pc>>
  /\ UNCHANGED <<grid_vars, curve_vars, table_vars, main_vars>>

\* A loop that also stops once no row's theta moves any more (a convergence
\* check).
UnprojectLoopExitOnConvergence ==
  /\ un_pc = "loop"
  /\ un_iter >= UnprojectIters \/ UnprojectUpdate(un_theta, n_r, n_coeffs) = un_theta
  /\ un_pc' = "done"
  /\ UNCHANGED <<n_r, n_coeffs, inv_pc, inv_theta, inv_error, inv_iter, un_theta, un_iter>>
  /\ UNCHANGED <<grid_vars, curve_vars, table_vars, main_vars>>

\* The range is exhausted: the unit vectors are computed from theta.
UnprojectLoopExit ==
  /\ un_pc = "loop" /\ un_iter >= UnprojectIters
  /\ un_pc' = "done"
  /\ UNCHANGED <<n_r, n_coeffs, inv_pc, inv_theta, inv_error, inv_iter, un_theta, un_iter>>
  /\ UNCHANGED <<grid_vars, curve_vars, table_vars, main_vars>>

NewtonNext ==
  \/ InvertStart \/ InvertPass \/ InvertReturn
  \/ UnprojectStart \/ UnprojectPass \/ UnprojectLoopExit

InitNewton == GridOff /\ CurveOff /\ NewtonInit /\ TableOff /\ MainOff
SpecNewton == InitNewton /\ [][NewtonNext]_vars

\* ----------------------------------------- create_remap_table, called

\* The largest image width and height in a camera description.
MaxDim == 2
\* Widths and heights tried: up to MaxDim, and zero and -1.
DimValues == -1..MaxDim

\* The record d with only the keys in S.
Restrict(d, S) == [k \in S |-> d[k]]
\* Every record d with at most one key left out, and the empty one.
Partial(d) ==
  {Restrict(d, S) : S \in {T \in SUBSET DOMAIN d : Cardinality(DOMAIN d \ T) <= 1 \/ T = {}}}

DimensionRecords ==
  {Restrict(d, S) : d \in [{"width", "height"} -> DimValues],
                    S \in SUBSET {"width", "height"}}
\* fx = fy = 2, cx = cy = 0.5.
SampleMatrix ==
  [fx |-> FromInt(2), fy |-> FromInt(2), cx |-> Scale \div 2, cy |-> Scale \div 2]
\* The sample, the sample with a key left out, and a singular matrix (fx = 0).
MatrixRecords == Partial(SampleMatrix) \cup {[SampleMatrix EXCEPT !.fx = 0]}
\* Kannala-Brandt coefficients: equidistant, and k1 = 0.125.
FisheyeRecords ==
  {[k1 |-> 0, k2 |-> 0, k3 |-> 0, k4 |-> 0],
   [k1 |-> Scale \div 8, k2 |-> 0, k3 |-> 0, k4 |-> 0]}
\* Brown-Conrady coefficients, each its own value.
BrownConradyRecord == [k1 |-> 1, k2 |-> 2, k3 |-> 3, p1 |-> 4, p2 |-> 5]
CoefficientRecords ==
  UNION {Partial(d) : d \in FisheyeRecords \cup {BrownConradyRecord}}
    \cup {BrownConradyRecord @@ [k4 |-> 6]}

\* A field of the description, present with one of the values or absent.
Optional(key, values) == {<<>>} \cup {key :> v : v \in values}

\* The camera descriptions tried.
Cameras ==
  {m @@ d @@ k @@ c :
     m \in Optional("model", {"fisheye", "brown-conrady", "pinhole"}),
     d \in Optional("dimensions", DimensionRecords),
     k \in Optional("camera_matrix", MatrixRecords),
     c \in Optional("distortion_coefficients", CoefficientRecords)}

TableInit == t_camera \in Cameras /\ t_pc = "call" /\ t_ret = <<>>

\* remap_table = create_remap_table(camera): it returns a table or raises.
CreateRemapTable ==
  /\ t_pc = "call"
  /\ t_ret' = create_remap_table(t_camera)
  /\ t_pc' = IF t_ret'.ok THEN "returned" ELSE "raised"
  /\ UNCHANGED t_camera
  /\ UNCHANGED <<grid_vars, curve_vars, newton_vars, main_vars>>

TableNext == CreateRemapTable

InitTable == GridOff /\ CurveOff /\ NewtonOff /\ TableInit /\ MainOff
SpecTable == InitTable /\ [][TableNext]_vars

\* ------------------------------------------------------ main, by line

\* The most cameras in a configuration file.
MaxCameras == 2

\* Camera descriptions a configuration may hold: a fisheye and a Brown-Conrady
\* camera that build, and three that do not (no model, an unknown model, no
\* height).
GoodFisheye ==
  [model |-> "fisheye", dimensions |-> [width |-> 2, height |-> 1],
   camera_matrix |-> SampleMatrix,
   distortion_coefficients |-> [k1 |-> Scale \div 8, k2 |-> 0, k3 |-> 0, k4 |-> 0]]
GoodBrownConrady ==
  [model |-> "brown-conrady", dimensions |-> [width |-> 1, height |-> 2],
   camera_matrix |-> SampleMatrix, distortion_coefficients |-> BrownConradyRecord]
SampleCameras ==
  {GoodFisheye, GoodBrownConrady,
   Restrict(GoodFisheye, DOMAIN GoodFisheye \ {"model"}),
   [GoodFisheye EXCEPT !.model = "pinhole"],
   [GoodFisheye EXCEPT !.dimensions = [width |-> 2]]}
\* config.get("cameras", []): any list of at most MaxCameras of them.
Configs == UNION {[1..n -> SampleCameras] : n \in 0..MaxCameras}
\* The *.csv files of the input directory.
InputCsvs == {"ground_truth_imu_pose_00.csv", "intrinsics.csv"}

\* f"camera_{index:02}.raw", for an index below 100.
remap_table_path(i) == <<"camera_", i \div 10, i % 10, ".raw">>

\* What happened to camera i, appended to events as it happens.
Event(what, i) == [what |-> what, camera |-> i]

MainInit ==
  /\ cameras \in Configs /\ pc = "line 114" /\ index = 0 /\ remap_table = None
  /\ temp_files = <<>> /\ commands = <<>> /\ csv_left = InputCsvs /\ copied = {}
  /\ raised = NoExc /\ events = <<>>

MainFrame == UNCHANGED <<grid_vars, curve_vars, newton_vars, table_vars>>

\* Lines 114-123: no cameras, print and exit(1); otherwise enter the loop.
CheckCameras ==
  /\ pc = "line 114"
  /\ pc' = IF Len(cameras) = 0 THEN "exit(1)" ELSE "line 124"
  /\ UNCHANGED <<cameras, index, remap_table, temp_files, commands, csv_left, copied,
                 raised, events>>
  /\ MainFrame

\* Line 124: remap_table = create_remap_table(camera=description); an exception
\* it raises is caught nowhere and ends main.
BuildTable ==
  /\ pc = "line 124"
  /\ LET built == create_remap_table(cameras[index + 1])
     IN IF built.ok
          THEN /\ remap_table' = built.table
               /\ events' = Append(events, Event("built", index))
               /\ pc' = "line 128"
               /\ UNCHANGED raised
          ELSE /\ raised' = built.exc
               /\ events' = Append(events, Event("raised", index))
               /\ pc' = "raised"
               /\ UNCHANGED remap_table
  /\ UNCHANGED <<cameras, index, temp_files, commands, csv_left, copied>>
  /\ MainFrame

\* Lines 127-128: remap_table.astype(np.float32).tofile(remap_table_path)
WriteTable ==
  /\ pc = "line 128"
  /\ temp_files' = Append(temp_files,
       [path |-> remap_table_path(index), dtype |-> "float32", table |-> remap_table])
  /\ events' = Append(events, Event("written", index))
  /\ pc' = "line 149"
  /\ UNCHANGED <<cameras, index, remap_table, commands, csv_left, copied, raised>>
  /\ MainFrame

\* Lines 131-149: subprocess.check_call(command) starts the converter.
RunConverter ==
  /\ pc = "line 149"
  /\ commands' = Append(commands,
       [width |-> remap_table.shape[2], height |-> remap_table.shape[1],
        camera_index |-> index, remap_table |-> remap_table_path(index)])
  /\ events' = Append(events, Event("invoked", index))
  /\ pc' = "converting"
  /\ UNCHANGED <<cameras, index, remap_table, temp_files, csv_left, copied, raised>>
  /\ MainFrame

\* check_call returns when the converter exits with status 0: the loop goes on
\* to the next camera, or ends.
ConverterSucceeds ==
  /\ pc = "converting"
  /\ events' = Append(events, Event("returned", index))
  /\ IF index + 1 < Len(cameras)
       THEN index' = index + 1 /\ pc' = "line 124"
       ELSE index' = index /\ pc' = "line 152"
  /\ UNCHANGED <<cameras, remap_table, temp_files, commands, csv_left, copied, raised>>
  /\ MainFrame

\* A main that notes the converter's failure and goes on to the next camera.
ConverterFailsAndContinues ==
  /\ pc = "converting"
  /\ raised' = Exception("CalledProcessError", <<"non-zero exit status", index>>)
  /\ events' = Append(events, Event("raised", index))
  /\ IF index + 1 < Len(cameras)
       THEN index' = index + 1 /\ pc' = "line 124"
       ELSE index' = index /\ pc' = "line 152"
  /\ UNCHANGED <<cameras, remap_table, temp_files, commands, csv_left, copied>>
  /\ MainFrame

\* check_call raises CalledProcessError when the converter exits with another
\* status; it is caught nowhere and ends main.
ConverterFails ==
  /\ pc = "converting"
  /\ raised' = Exception("CalledProcessError", <<"non-zero exit status", index>>)
  /\ events' = Append(events, Event("raised", index))
  /\ pc' = "raised"
  /\ UNCHANGED <<cameras, index, remap_table, temp_files, commands, csv_left, copied>>
  /\ MainFrame

\* Lines 152-158: one pass of the loop over the input's *.csv files, in the
\* order glob gives them; intrinsics.csv is skipped.
CopyCsv ==
  /\ pc = "line 152" /\ csv_left # {}
  /\ \E csv_name \in csv_left :
       /\ csv_left' = csv_left \ {csv_name}
       /\ copied' = IF csv_name = "intrinsics.csv" THEN copied ELSE copied \cup {csv_name}
  /\ UNCHANGED <<cameras, pc, index, remap_table, temp_files, commands, raised, events>>
  /\ MainFrame

\* Lines 161-163: the configuration file is copied as intrinsics.toml.
CopyCalibration ==
  /\ pc = "line 152" /\ csv_left = {}
  /\ copied' = copied \cup {"intrinsics.toml"}
  /\ pc' = "returned"
  /\ UNCHANGED <<cameras, index, remap_table, temp_files, commands, csv_left, raised,
                 events>>
  /\ MainFrame

MainNext ==
  \/ CheckCameras \/ BuildTable \/ WriteTable \/ RunConverter
  \/ ConverterSucceeds \/ ConverterFails \/ CopyCsv \/ CopyCalibration

InitMain == GridOff /\ CurveOff /\ NewtonOff /\ TableOff /\ MainInit
SpecMain == InitMain /\ [][MainNext]_vars

\* ============================================================ claims

\* C1: for width > 0 and height > 0, create_grid returns exactly width*height
\* pairs, and the pair at flat index y*width + x is (x, y): row-major, x
\* varying fastest.
C1_GridRowMajor ==
  (g_pc = "returned" /\ g_width > 0 /\ g_height > 0) =>
    /\ Len(g_ret) = g_width * g_height
    /\ \A x \in 0..(g_width - 1), y \in 0..(g_height - 1) :
         g_ret[y * g_width + x + 1] = <<x, y>>
    /\ g_ret = create_grid(g_width, g_height)

\* Grid(3,2) has been generated, and is the sequence the specification lists.
C1_Witness ==
  /\ g_pc = "returned" /\ g_width = 3 /\ g_height = 2
  /\ g_ret = <<<<0, 0>>, <<1, 0>>, <<2, 0>>, <<0, 1>>, <<1, 1>>, <<2, 1>>>>

\* The whole number a whole-valued number stands for.
Whole(a) == a \div Scale

\* C7: fisheye_distortion returns, for each row on its own, r = theta +
\* k1 theta^3 + k2 theta^5 + k3 theta^7 + k4 theta^9 and dr/dtheta = 1 +
\* 3 k1 theta^2 + 5 k2 theta^4 + 7 k3 theta^6 + 9 k4 theta^8, the leading
\* coefficient being 1 whatever the coefficients given.
C7_DistortionCurve ==
  c_pc = "returned" =>
    /\ Len(c_ret.r) = Len(c_theta)
    /\ Len(c_ret.r_D_theta) = Len(c_theta)
    /\ \A i \in 1..Len(c_theta) :
         LET t == Whole(c_theta[i])
             k1 == Whole(c_coeffs[1])
             k2 == Whole(c_coeffs[2])
             k3 == Whole(c_coeffs[3])
             k4 == Whole(c_coeffs[4])
         IN /\ c_ret.r[i] = FromInt(t + k1 * t^3 + k2 * t^5 + k3 * t^7 + k4 * t^9)
            /\ c_ret.r_D_theta[i] =
                 FromInt(1 + 3 * k1 * t^2 + 5 * k2 * t^4 + 7 * k3 * t^6 + 9 * k4 * t^8)

\* The curve has been evaluated on a column of two different angles, 2 and -1,
\* with coefficients (1, 0, -1, 1): r is 2 + 8 - 128 + 512 and -1 - 1 + 1 - 1.
C7_Witness ==
  /\ c_pc = "returned"
  /\ c_theta = <<FromInt(2), FromInt(-1)>>
  /\ c_coeffs = <<FromInt(1), 0, FromInt(-1), FromInt(1)>>
  /\ c_ret.r = <<FromInt(394), FromInt(-2)>>
  /\ c_ret.r_D_theta = <<FromInt(1 + 12 - 448 + 2304), FromInt(1 + 3 - 7 + 9)>>

\* theta after k Newton updates theta <- theta - (curve(theta) - r)/curve'(theta)
\* from theta = r, for one radius r.
RECURSIVE NewtonIterate(_, _, _)
NewtonIterate(r, coeffs, k) ==
  IF k = 0 THEN r
  ELSE LET t == NewtonIterate(r, coeffs, k - 1)
           curve == fisheye_distortion(<<t>>, coeffs)
       IN Sub(t, Div(Sub(curve.r[1], r), curve.r_D_theta[1]))

\* C8: both Newton loops start from theta = r, apply the update theta <- theta
\* - (curve(theta) - r)/curve'(theta) once per pass, end after exactly 10
\* passes whatever the residual, and end with the same theta.
C8_NewtonTenPasses ==
  /\ inv_pc \in {"loop", "returned"} =>
       /\ inv_iter <= 10 /\ Len(inv_theta) = Len(n_r)
       /\ \A i \in 1..Len(n_r) : inv_theta[i] = NewtonIterate(n_r[i], n_coeffs, inv_iter)
  /\ un_pc \in {"loop", "done"} =>
       /\ un_iter <= 10 /\ Len(un_theta) = Len(n_r)
       /\ \A i \in 1..Len(n_r) : un_theta[i] = NewtonIterate(n_r[i], n_coeffs, un_iter)
  /\ inv_pc = "returned" => inv_iter = 10
  /\ un_pc = "done" => un_iter = 10
  /\ (inv_pc = "returned" /\ un_pc = "done") => inv_theta = un_theta

\* Both loops have ended, on a column with a row that had converged (zero
\* residual) and a row whose residual is still not zero.
C8_Witness ==
  /\ inv_pc = "returned" /\ un_pc = "done"
  /\ \E i \in 1..Len(n_r) : inv_error[i] = 0
  /\ \E i \in 1..Len(n_r) : inv_error[i] # 0 /\ IsFinite(inv_error[i])

\* ------------------------------------------------ create_remap_table

\* The elements of a sequence.
Range(seq) == {seq[k] : k \in 1..Len(seq)}
\* The model tag of the camera being built, or "" where it has none.
Model == Get(t_camera, "model", "")
\* The camera being built lacks a required field of dimensions or camera_matrix.
MissingRequired ==
  \/ ~({"width", "height"} \subseteq DOMAIN Get(t_camera, "dimensions", EmptyDict))
  \/ ~({"fx", "fy", "cx", "cy"} \subseteq DOMAIN Get(t_camera, "camera_matrix", EmptyDict))
\* The exception's message is a text followed by the whole camera description.
EchoesDescription(exc) == Len(exc.msg) = 2 /\ exc.msg[2] = pformat(t_camera)

\* The unprojection of the one pixel (x, y) by the camera being built.
UnprojectPixel(x, y) ==
  LET K == get_camera_matrix(t_camera).K
      dc == t_camera["distortion_coefficients"]
  IN IF Model = "fisheye"
       THEN unproject_fisheye(<<<<x, y>>>>, K, fisheye_coeffs(dc))
       ELSE normalized_unit_depth(
              undistortPoints(astype_float64(<<<<x, y>>>>), K, brown_conrady_coeffs(dc)))

\* C2: a table returned for a camera of width > 0 and height > 0 has shape
\* (height, width, 3) and its entry [y][x] is the unprojection of pixel (x, y):
\* the reshape re-groups the flat result and reorders nothing.
C2_TableLayout ==
  (t_pc = "returned" /\ get_image_dimensions(t_camera).width > 0
                     /\ get_image_dimensions(t_camera).height > 0) =>
    LET width == get_image_dimensions(t_camera).width
        height == get_image_dimensions(t_camera).height
        rows == t_ret.table.rows
    IN /\ t_ret.table.shape = <<height, width, 3>>
       /\ Len(rows) = height
       /\ \A y \in 0..(height - 1) :
            /\ Len(rows[y + 1]) = width
            /\ \A x \in 0..(width - 1) :
                 LET v == UnprojectPixel(x, y)
                 IN Len(v) = 1 /\ Len(rows[y + 1][x + 1]) = 3 /\ rows[y + 1][x + 1] = v[1]

\* A fisheye table of two rows and two columns was returned.
C2_Witness ==
  /\ t_pc = "returned" /\ Model = "fisheye"
  /\ t_ret.table.shape = <<2, 2, 3>>
  /\ t_ret.table.rows[2][1] # t_ret.table.rows[1][2]

\* A fisheye tag reaches the fisheye builder and nothing of the Brown-Conrady
\* one, and a brown-conrady tag the reverse.
DispatchOnlyToOwnBuilder ==
  /\ (t_pc # "call" /\ Model = "fisheye") =>
       /\ Len(t_ret.calls) > 0 /\ t_ret.calls[1] = "create_fisheye_remap_table"
       /\ Range(t_ret.calls) \cap {"create_brown_conrady_remap_table", "undistortPoints"} = {}
       /\ t_ret.undistort_args = <<>>
  /\ (t_pc # "call" /\ Model = "brown-conrady") =>
       /\ Len(t_ret.calls) > 0 /\ t_ret.calls[1] = "create_brown_conrady_remap_table"
       /\ Range(t_ret.calls) \cap {"create_fisheye_remap_table", "unproject_fisheye"} = {}

\* C3, as the code has it: without a model tag create_remap_table raises a
\* KeyError whose message is "Camera lacks a model specifier: " and the
\* description; with a tag that is neither fisheye nor brown-conrady it raises
\* a KeyError too, whose message is "Invalid camera model: " and the tag; in
\* both cases no builder is called.  A fisheye tag dispatches only to the
\* fisheye builder, a brown-conrady tag only to the Brown-Conrady builder.
C3_ModelDispatch ==
  /\ (t_pc # "call" /\ "model" \notin DOMAIN t_camera) =>
       /\ t_pc = "raised" /\ t_ret.table = None /\ t_ret.calls = <<>>
       /\ t_ret.exc = Exception("KeyError",
                        <<"Camera lacks a model specifier: ", pformat(t_camera)>>)
  /\ (t_pc # "call" /\ "model" \in DOMAIN t_camera
                    /\ Model \notin {"fisheye", "brown-conrady"}) =>
       /\ t_pc = "raised" /\ t_ret.table = None /\ t_ret.calls = <<>>
       /\ t_ret.exc = Exception("KeyError", <<"Invalid camera model: ", str(Model)>>)
  /\ DispatchOnlyToOwnBuilder

\* A camera tagged "pinhole" was refused with a KeyError.
C3_Witness ==
  /\ t_pc = "raised" /\ Model = "pinhole"
  /\ t_ret.exc.type = "KeyError" /\ t_ret.calls = <<>>

\* C3 as the specification words it: the error for a missing tag and the error
\* for an unknown tag are of distinct kinds.
C3_DistinctErrorKinds ==
  /\ (t_pc = "raised" /\ "model" \notin DOMAIN t_camera) =>
       t_ret.exc.type # create_remap_table(("model" :> "pinhole") @@ t_camera).exc.type
  /\ DispatchOnlyToOwnBuilder

\* C4, as the code has it: a camera lacking a required field of dimensions or
\* camera_matrix makes create_remap_table raise, with no grid built and no
\* table returned.  Where its model is fisheye or brown-conrady the exception
\* is a ValueError whose message ends with the whole description; where it has
\* no model the exception is the KeyError of the dispatch, which shows the
\* description too; where its model is unknown it is the KeyError that shows
\* the tag only.
C4_MissingFieldRaises ==
  (t_pc # "call" /\ MissingRequired) =>
    /\ t_pc = "raised" /\ t_ret.table = None
    /\ t_ret.grid_args = <<>> /\ "create_grid" \notin Range(t_ret.calls)
    /\ Model \in {"fisheye", "brown-conrady"} =>
         t_ret.exc.type = "ValueError" /\ EchoesDescription(t_ret.exc)
    /\ "model" \notin DOMAIN t_camera =>
         t_ret.exc.type = "KeyError" /\ EchoesDescription(t_ret.exc)
    /\ ("model" \in DOMAIN t_camera /\ Model \notin {"fisheye", "brown-conrady"}) =>
         t_ret.exc = Exception("KeyError", <<"Invalid camera model: ", str(Model)>>)

\* A fisheye camera whose dimensions lack the height was refused.
C4_Witness ==
  /\ t_pc = "raised" /\ Model = "fisheye"
  /\ "dimensions" \in DOMAIN t_camera /\ DOMAIN t_camera["dimensions"] = {"width"}
  /\ t_ret.exc.type = "ValueError" /\ EchoesDescription(t_ret.exc)
  /\ t_ret.grid_args = <<>>

\* C4 as the specification words it: every such camera fails with the
\* configuration error (the ValueError of the accessors) and a message that
\* shows the whole description.
C4_AlwaysConfigurationError ==
  (t_pc # "call" /\ MissingRequired) =>
    /\ t_pc = "raised" /\ t_ret.table = None /\ t_ret.grid_args = <<>>
    /\ EchoesDescription(t_ret.exc)
    /\ t_ret.exc.type = "ValueError"

\* C5 as the specification words it: a camera whose width or height is not
\* positive is refused before the grid generator is called, and no table is
\* produced for it.
C5_NonPositiveRefused ==
  (/\ t_pc # "call" /\ Model \in {"fisheye", "brown-conrady"}
   /\ get_image_dimensions(t_camera).ok
   /\ \/ get_image_dimensions(t_camera).width <= 0
      \/ get_image_dimensions(t_camera).height <= 0) =>
    /\ t_pc = "raised" /\ t_ret.table = None
    /\ \A k \in 1..Len(t_ret.grid_args) :
         t_ret.grid_args[k][1] > 0 /\ t_ret.grid_args[k][2] > 0

\* A table was returned for a camera of width zero, after create_grid(0, 2).
C5_Witness ==
  /\ t_pc = "returned" /\ Model = "fisheye"
  /\ t_ret.grid_args = <<<<0, 2>>>>
  /\ t_ret.table.shape = <<2, 0, 3>>

\* C9: the Brown-Conrady builder gives the primitive the coefficients in the
\* order (k1, k2, p1, p2, k3), and where the record lacks any of k1, k2, k3,
\* p1, p2 it raises, with no table and the primitive not called.
C9_BrownConradyCoefficients ==
  (t_pc # "call" /\ Model = "brown-conrady") =>
    LET dc == Get(t_camera, "distortion_coefficients", EmptyDict)
    IN /\ \A k \in 1..Len(t_ret.undistort_args) :
            t_ret.undistort_args[k].coeffs
              = <<dc["k1"], dc["k2"], dc["p1"], dc["p2"], dc["k3"]>>
       /\ t_pc = "returned" => Len(t_ret.undistort_args) = 1
       /\ ~({"k1", "k2", "k3", "p1", "p2"} \subseteq DOMAIN dc) =>
            /\ t_pc = "raised" /\ t_ret.table = None
            /\ t_ret.undistort_args = <<>>
            /\ "undistortPoints" \notin Range(t_ret.calls)

\* A Brown-Conrady table was returned, the primitive having been given
\* k1 = 1, k2 = 2, p1 = 4, p2 = 5, k3 = 3 in that order.
C9_Witness ==
  /\ t_pc = "returned" /\ Model = "brown-conrady"
  /\ Len(t_ret.undistort_args) = 1
  /\ t_ret.undistort_args[1].coeffs = <<1, 2, 4, 5, 3>>

\* ------------------------------------------------------------- main

\* What happens to n cameras that all build and convert: camera 0 is built,
\* written, its converter invoked and returned, then camera 1, and so on.
Steps == <<"built", "written", "invoked", "returned">>
Schedule(n) == [k \in 1..(4 * n) |-> Event(Steps[((k - 1) % 4) + 1], (k - 1) \div 4)]
\* seq is the first Len(seq) elements of full.
IsPrefix(seq, full) ==
  Len(seq) <= Len(full) /\ \A k \in 1..Len(seq) : seq[k] = full[k]

\* C10: the cameras are processed one after the other in the order of the
\* configuration: camera i is built, then written to its own camera_i.raw,
\* then the converter is invoked with --camera-index i, and it has returned
\* before camera i+1 is built.  A failure building or converting camera i ends
\* the run: nothing happens to a later camera and no CSV or calibration file
\* is copied.
C10_SequentialCameras ==
  /\ IF pc = "raised"
       THEN /\ Len(events) > 0
            /\ IsPrefix(SubSeq(events, 1, Len(events) - 1), Schedule(Len(cameras)))
            /\ events[Len(events)] = Event("raised", (Len(events) - 1) \div 4)
            /\ (Len(events) - 1) % 4 \in {0, 3}
            /\ raised # NoExc
            /\ copied = {} /\ csv_left = InputCsvs
            /\ ~ENABLED MainNext
       ELSE /\ IsPrefix(events, Schedule(Len(cameras)))
            /\ raised = NoExc
  /\ (copied # {} \/ csv_left # InputCsvs) => events = Schedule(Len(cameras))
  /\ Len(commands) <= Len(temp_files) /\ Len(temp_files) <= Len(cameras)
  /\ \A k \in 1..Len(temp_files) :
       /\ temp_files[k].path = remap_table_path(k - 1)
       /\ temp_files[k].table = create_remap_table(cameras[k]).table
       /\ \A j \in 1..Len(temp_files) : j # k => temp_files[j].path # temp_files[k].path
  /\ \A k \in 1..Len(commands) :
       /\ commands[k].camera_index = k - 1
       /\ commands[k].remap_table = temp_files[k].path

\* The second camera failed to build after the first one's converter had
\* returned.
C10_Witness ==
  /\ pc = "raised" /\ index = 1 /\ Len(cameras) = 2
  /\ Len(commands) = 1 /\ commands[1].camera_index = 0
  /\ events[Len(events)] = Event("raised", 1)
  /\ copied = {}

====
